---- MODULE Spec2Model ----
(***************************************************************************)
(* Model of the Welth finance platform's server actions:                   *)
(*   - scanReceipt (src/actions/transaction.js) and the ReceiptScanner     *)
(*     widget that calls it (src/unnamed/part_000);                        *)
(*   - createTransaction / updateTransaction (src/actions/transaction.js); *)
(*   - createAccount (src/actions/dashboard.js).                           *)
(* Strings are modelled as sequences of tokens: a marker the code searches *)
(* for ("Error:", "format not recognized", a fence, a brace) is one token, *)
(* so that includes(), trim(), replace() and indexOf() are computed.       *)
(***************************************************************************)
EXTENDS Integers, Sequences, FiniteSets, TLC

VARIABLES
    pc,           \* position of the scanReceipt call
    viaUI,        \* the call was made by the ReceiptScanner widget
    file,         \* formData.get('file')
    apiKey,       \* process.env.GEMINI_API_KEY is configured
    defaultCategories, \* the imported category list
    idx,          \* index of the next endpoint of the for-loop
    apiResponse,  \* let apiResponse
    lastError,    \* let lastError
    contacted,    \* the fetch calls issued so far, with their outcome
    outcome,      \* how the scanReceipt call completed
    toast,        \* the toast the widget showed for the call
    accounts,     \* db.account rows
    transactions, \* db.transaction rows
    calls,        \* server-action calls between their read and their write
    touched,      \* <<caller, account>> pairs of committed balance changes
    ops           \* number of transaction server-action calls made so far

scanVars == <<pc, viaUI, file, apiKey, defaultCategories, idx, apiResponse,
              lastError, contacted, outcome, toast>>
dbVars == <<accounts, transactions, calls, touched, ops>>
vars == <<pc, viaUI, file, apiKey, defaultCategories, idx, apiResponse,
          lastError, contacted, outcome, toast, accounts, transactions, calls,
          touched, ops>>

----------------------------------------------------------------------------
(* Bounds *)

MaxTextLen == 2

\* server-action calls on the transaction store in one run, and how many of
\* them may be between their read and their write at once
MaxOps == 2
MaxCalls == 2

\* createAccount calls in one run
MaxAccountOps == 3

----------------------------------------------------------------------------
(* Generic helpers *)

Range(s) == {s[i] : i \in 1..Len(s)}

Abs(n) == IF n < 0 THEN -n ELSE n

SeqsUpTo(S, n) == UNION {[1..k -> S] : k \in 0..n}

\* String.prototype.includes for a marker that is one token
Includes(s, marker) == marker \in Range(s)

IsSpace(t) == t = " "

RECURSIVE TrimLeft(_)
TrimLeft(s) ==
    IF s = <<>> THEN <<>>
    ELSE IF IsSpace(Head(s)) THEN TrimLeft(Tail(s)) ELSE s

RECURSIVE TrimRight(_)
TrimRight(s) ==
    IF s = <<>> THEN <<>>
    ELSE IF IsSpace(s[Len(s)]) THEN TrimRight(SubSeq(s, 1, Len(s) - 1)) ELSE s

\* String.prototype.trim
Trim(s) == TrimRight(TrimLeft(s))

----------------------------------------------------------------------------
(* scanReceipt: constants *)

MaxFileSize == 5 * 1024 * 1024

endpointsToTry ==
    << "gemini-1.5-flash-002", "gemini-1.5-pro-002",
       "gemini-2.5-flash-preview-05-20", "gemini-2.5-pro-preview-03-25" >>

NumEndpoints == Len(endpointsToTry)

Sentinel == "other-expense"

\* category lists the import can supply
CategoryLists ==
    { << >>,
      << [id |-> "salary", type |-> "INCOME"],
         [id |-> "groceries", type |-> "EXPENSE"],
         [id |-> "other-expense", type |-> "EXPENSE"] >> }

\* files a caller can put in the form data: none, or one of a given size
Files ==
    { [present |-> FALSE, size |-> 0] } \cup
    { [present |-> TRUE, size |-> n] : n \in {1024, MaxFileSize, MaxFileSize + 1} }

----------------------------------------------------------------------------
(* scanReceipt: the category allow-list, lines 275-279 and 401 *)

\* defaultCategories.filter(cat => cat.type === 'EXPENSE').map(cat => cat.id)
ExpenseIds(cats) ==
    LET F[i \in 0..Len(cats)] ==
          IF i = 0 THEN <<>>
          ELSE IF cats[i].type = "EXPENSE" THEN Append(F[i - 1], cats[i].id)
               ELSE F[i - 1]
    IN F[Len(cats)]

\* Array.prototype.join(','): the ids with a "," token between them
RECURSIVE Join(_)
Join(ids) ==
    IF ids = <<>> THEN <<>>
    ELSE IF Len(ids) = 1 THEN <<ids[1]>>
    ELSE <<ids[1], ",">> \o Join(Tail(ids))

\* String.prototype.split(','): the pieces between "," tokens ("" for an
\* empty piece, so that "".split(',') is [""])
RECURSIVE Split(_)
Split(s) ==
    IF \A i \in 1..Len(s) : s[i] # ","
    THEN << IF s = <<>> THEN "" ELSE s[1] >>
    ELSE LET c == CHOOSE i \in 1..Len(s) :
                    s[i] = "," /\ \A j \in 1..(i - 1) : s[j] # ","
         IN << IF c = 1 THEN "" ELSE s[1] >> \o Split(SubSeq(s, c + 1, Len(s)))

validExpenseCategories(cats) == Join(ExpenseIds(cats))

validCategoryList(cats) == Split(validExpenseCategories(cats))

----------------------------------------------------------------------------
(* scanReceipt: what an endpoint can answer *)

\* the tokens of a model response text: a code fence, the word json, braces,
\* a well-formed member list, prose, the literal null and a JSON number
TextTokens == {"FENCE", "json", "{", "}", "m", "w", "null", "7"}

\* texts that carry one object: bare, fenced, fenced as json, inside prose
SampleTexts ==
    { <<"{", "m", "}">>,
      <<"FENCE", "{", "m", "}", "FENCE">>,
      <<"FENCE", "json", "{", "m", "}", "FENCE">>,
      <<"w", "{", "m", "}", "w">> }

Texts == SeqsUpTo(TextTokens, MaxTextLen) \cup SampleTexts

Absent == [t |-> "absent", n |-> 0, s |-> <<>>]
Num(n) == [t |-> "number", n |-> n, s |-> <<>>]
Str(s) == [t |-> "string", n |-> 0, s |-> s]

\* the fields the member list "m" of a response text can carry
AmountValues == {Absent, Num(-2), Num(0), Num(3), Str(<<"5">>)}
DateValues ==
    {Absent, Str(<<>>), Str(<<"2023-12-25T00:00:00.000Z">>), Str(<<"not a date">>)}
DescriptionValues ==
    {Absent, Num(7), Str(<<" ">>), Str(<<" ", "Grocery shopping", " ">>),
     Str(<<"format not recognized">>), Str(<<"Receipt scan">>),
     Str(<<"Error:", "x">>), Str(<<"Failed to connect">>)}
MerchantValues == {Absent, Str(<<" ">>), Str(<<"Store Name", " ">>)}
CategoryValues ==
    {Absent, Str(<<>>), Str(<<"groceries">>), Str(<<"salary">>),
     Str(<<"bogus">>), Num(1)}

NoMembers ==
    [amount |-> Absent, date |-> Absent, description |-> Absent,
     merchantName |-> Absent, category |-> Absent]

\* the member list of the prompt's example
ExampleMembers ==
    [amount |-> Num(3), date |-> Str(<<"2023-12-25T00:00:00.000Z">>),
     description |-> Str(<<" ", "Grocery shopping", " ">>),
     merchantName |-> Str(<<"Store Name", " ">>),
     category |-> Str(<<"groceries">>)]

\* the member lists an endpoint can send: each field is sanitised on its
\* own, so the fields vary one at a time around the two lists above, and the
\* amount and the description, which the widget reads together, vary jointly
Members ==
    UNION { { [base EXCEPT !.amount = a, !.description = d] :
                a \in AmountValues, d \in DescriptionValues } \cup
            { [base EXCEPT !.date = d] : d \in DateValues } \cup
            { [base EXCEPT !.merchantName = n] : n \in MerchantValues } \cup
            { [base EXCEPT !.category = c] : c \in CategoryValues } :
            base \in {NoMembers, ExampleMembers} }

\* the value of response.json(): null (or another falsy JSON value),
\* or an object whose candidates[0].content.parts[0].text is missing, a
\* string, or a truthy non-string
NullJson == [isNull |-> TRUE, text |-> "missing", tokens |-> <<>>, members |-> NoMembers]

JsonBodies ==
    { NullJson } \cup
    { [isNull |-> FALSE, text |-> k, tokens |-> <<>>, members |-> NoMembers] :
        k \in {"missing", "nonstring"} } \cup
    { [isNull |-> FALSE, text |-> "string", tokens |-> t,
       members |-> IF "m" \in Range(t) THEN ExampleMembers ELSE NoMembers] :
        t \in Texts } \cup
    { [isNull |-> FALSE, text |-> "string", tokens |-> <<"{", "m", "}">>,
       members |-> m] : m \in Members }

\* how one fetch can end: the fetch itself throws, a non-2xx status, a 2xx
\* status whose body response.json() cannot decode, a 2xx status with a body
FailureKinds == {"exception", "non2xx", "badbody"}

\* the error text of a failure of endpoint k: one token per endpoint and kind
FetchErrorOf(k) == << "fetch-failed-1", "fetch-failed-2", "fetch-failed-3", "fetch-failed-4" >>[k]
ErrorTextOf(k) == << "errorText-1", "errorText-2", "errorText-3", "errorText-4" >>[k]
JsonErrorOf(k) == << "bad-json-1", "bad-json-2", "bad-json-3", "bad-json-4" >>[k]

\* error.message of the Error the loop records for a failure of endpoint k
FailureMessage(k, kind) ==
    CASE kind = "exception" -> << FetchErrorOf(k) >>
      [] kind = "non2xx"    -> << "API request failed: ", ErrorTextOf(k) >>
      [] kind = "badbody"   -> << JsonErrorOf(k) >>

NoError == [set |-> FALSE, message |-> <<>>]
Error(msg) == [set |-> TRUE, message |-> msg]

----------------------------------------------------------------------------
(* scanReceipt: how a call completes *)

NoResult ==
    [amount |-> -1, date |-> [valid |-> FALSE, at |-> "none"], description |-> <<>>,
     merchantName |-> <<>>, category |-> ""]

NotCompleted == [kind |-> "none", value |-> NoResult, message |-> <<>>]
Returned(v) == [kind |-> "returned", value |-> v, message |-> <<>>]
Threw(msg) == [kind |-> "threw", value |-> NoResult, message |-> msg]

\* new Date()
Now == [valid |-> TRUE, at |-> "now"]

InvalidDate == [valid |-> FALSE, at |-> "Invalid Date"]

\* the date strings Date can parse
ParsableDates == { <<"2023-12-25T00:00:00.000Z">> }

\* new Date(v)
NewDate(v) ==
    IF v.t = "number" THEN [valid |-> TRUE, at |-> "epoch"]
    ELSE IF v.s \in ParsableDates THEN [valid |-> TRUE, at |-> v.s[1]]
    ELSE InvalidDate

\* JavaScript truthiness of a decoded field
Truthy(v) ==
    CASE v.t = "absent" -> FALSE
      [] v.t = "number" -> v.n # 0
      [] v.t = "string" -> v.s # <<>>

\* a one-token string as a category id
StrId(v) == IF v.s = <<>> THEN "" ELSE v.s[1]

----------------------------------------------------------------------------
(* scanReceipt: lines 375-386, the candidate JSON span of the text *)

\* the replace() of line 378: every fence, optional word json, content,
\* fence, left to right, is replaced by its content without the white space
\* around it
RECURSIVE StripFrom(_, _)
StripFrom(s, i) ==
    IF i > Len(s) THEN <<>>
    ELSE IF s[i] = "FENCE" /\ \E c \in (i + 1)..Len(s) : s[c] = "FENCE"
    THEN LET c == CHOOSE c \in (i + 1)..Len(s) :
                    s[c] = "FENCE" /\ \A d \in (i + 1)..(c - 1) : s[d] # "FENCE"
             start == IF i + 1 < c /\ s[i + 1] = "json" THEN i + 2 ELSE i + 1
         IN Trim(SubSeq(s, start, c - 1)) \o StripFrom(s, c + 1)
    ELSE <<s[i]>> \o StripFrom(s, i + 1)

StripFences(s) == Trim(StripFrom(Trim(s), 1))

\* indexOf('{') and lastIndexOf('}'), 0 for -1
IndexOf(s, t) ==
    IF t \in Range(s)
    THEN CHOOSE i \in 1..Len(s) : s[i] = t /\ \A j \in 1..(i - 1) : s[j] # t
    ELSE 0

LastIndexOf(s, t) ==
    IF t \in Range(s)
    THEN CHOOSE i \in 1..Len(s) : s[i] = t /\ \A j \in (i + 1)..Len(s) : s[j] # t
    ELSE 0

BraceSpan(s) ==
    LET jsonStart == IndexOf(s, "{")
        jsonEnd == LastIndexOf(s, "}")
    IN IF jsonStart # 0 /\ jsonEnd # 0 /\ jsonEnd > jsonStart
       THEN SubSeq(s, jsonStart, jsonEnd)
       ELSE s

JsonStringOf(text) == BraceSpan(StripFences(text))

\* JSON.parse: an object with or without members, the literal null or a
\* number (which has no fields); anything else is a SyntaxError
JsonParse(s) ==
    [ok |-> s \in { <<"{", "}">>, <<"{", "m", "}">>, <<"null">>, <<"7">> },
     isNull |-> s = <<"null">>,
     hasMembers |-> s = <<"{", "m", "}">>]

----------------------------------------------------------------------------
(* scanReceipt: lines 390-427, decoding and sanitising *)

ParseFailureResult ==
    [amount |-> 0, date |-> Now,
     description |-> << "Receipt scan", " - AI response ", "format not recognized",
                        ". Please manually enter details." >>,
     merchantName |-> << "Unknown merchant" >>,
     category |-> Sentinel]

\* Sanitise with the amount taken as decoded, its sign kept
Sanitise_signed(data, cats) ==
    LET list == validCategoryList(cats) IN
    [amount |-> IF data.amount.t = "number" THEN data.amount.n ELSE 0,
     date |-> IF Truthy(data.date) THEN NewDate(data.date) ELSE Now,
     description |->
        IF data.description.t = "string" /\ Trim(data.description.s) # <<>>
        THEN Trim(data.description.s) ELSE << "Receipt scan" >>,
     merchantName |->
        IF data.merchantName.t = "string" /\ Trim(data.merchantName.s) # <<>>
        THEN Trim(data.merchantName.s) ELSE << "Unknown merchant" >>,
     category |->
        IF Truthy(data.category) /\ data.category.t = "string"
           /\ \E i \in 1..Len(list) : list[i] = StrId(data.category)
        THEN StrId(data.category) ELSE Sentinel]

\* lines 394-414
Sanitise(data, cats) ==
    LET list == validCategoryList(cats) IN
    [amount |-> IF data.amount.t = "number" THEN Abs(data.amount.n) ELSE 0,
     date |-> IF Truthy(data.date) THEN NewDate(data.date) ELSE Now,
     description |->
        IF data.description.t = "string" /\ Trim(data.description.s) # <<>>
        THEN Trim(data.description.s) ELSE << "Receipt scan" >>,
     merchantName |->
        IF data.merchantName.t = "string" /\ Trim(data.merchantName.s) # <<>>
        THEN Trim(data.merchantName.s) ELSE << "Unknown merchant" >>,
     category |->
        IF Truthy(data.category) /\ data.category.t = "string"
           /\ \E i \in 1..Len(list) : list[i] = StrId(data.category)
        THEN StrId(data.category) ELSE Sentinel]

\* reading data.amount of a decoded null raises a TypeError inside the try
SanitiseThrows(parsed) == parsed.isNull

\* InnerTry without its catch: a decode error goes on to the outer catch
InnerTry_propagate(jsonString, members, cats) ==
    LET parsed == JsonParse(jsonString) IN
    IF ~parsed.ok THEN Threw(<< "Unexpected token in JSON" >>)
    ELSE IF SanitiseThrows(parsed)
    THEN Threw(<< "Cannot read properties of null (reading 'amount')" >>)
    ELSE Returned(Sanitise(IF parsed.hasMembers THEN members ELSE NoMembers, cats))

\* the try/catch of lines 390-427: every exception becomes the default result
InnerTry(jsonString, members, cats) ==
    LET parsed == JsonParse(jsonString) IN
    IF ~parsed.ok \/ SanitiseThrows(parsed)
    THEN Returned(ParseFailureResult)
    ELSE Returned(Sanitise(IF parsed.hasMembers THEN members ELSE NoMembers, cats))

\* lines 364-427: what follows the endpoint loop
AfterLoop(resp, err, cats) ==
    IF resp.isNull /\ err.set THEN Threw(err.message)
    ELSE IF resp.isNull
    THEN Threw(<< "Cannot read properties of null (reading 'candidates')" >>)
    ELSE IF resp.text = "nonstring" THEN Threw(<< "text.trim is not a function" >>)
    ELSE InnerTry(JsonStringOf(IF resp.text = "missing" THEN <<>> ELSE resp.tokens),
                  resp.members, cats)

\* ErrorResult with a fixed description that leaves the message out
ErrorResult_generic(msg) ==
    [amount |-> 0, date |-> Now,
     description |-> << "Failed to connect", " to AI service. ",
                        "Please manually enter receipt details." >>,
     merchantName |-> << "Error occurred" >>,
     category |-> Sentinel]

ErrorResult(msg) ==
    [amount |-> 0, date |-> Now,
     description |-> << "Error:", " " >> \o msg
                       \o << ". Please manually enter receipt details." >>,
     merchantName |-> << "Error occurred" >>,
     category |-> Sentinel]

\* OuterCatch that rethrows, as the catch of createTransaction does
OuterCatch_rethrow(c) == c

\* the catch of lines 428-439
OuterCatch(c) == IF c.kind = "threw" THEN Returned(ErrorResult(c.message)) ELSE c

\* PreCheck without the size check
PreCheck_noSize(f, key) ==
    IF ~f.present THEN Error(<< "No file provided" >>)
    ELSE IF ~key
    THEN Error(<< "GEMINI_API_KEY is not configured in environment variables" >>)
    ELSE NoError

\* lines 258-272: the first pre-check that fails, as the Error it throws
PreCheck(f, key) ==
    IF ~f.present THEN Error(<< "No file provided" >>)
    ELSE IF f.size > MaxFileSize THEN Error(<< "File size should be less than 5MB" >>)
    ELSE IF ~key
    THEN Error(<< "GEMINI_API_KEY is not configured in environment variables" >>)
    ELSE NoError

----------------------------------------------------------------------------
(* ReceiptScanner: lines 40-67, the toast shown for the returned data *)

IsErrorDescription(d) == Includes(d, "Error:") \/ Includes(d, "Failed to connect")

IsMeaningful(r) ==
    \/ r.amount > 0
    \/ /\ r.description # <<>>
       /\ ~Includes(r.description, "Receipt scan")
       /\ ~Includes(r.description, "format not recognized")

\* ToastFor with the format check ahead of the meaningful-data check
ToastFor_formatFirst(r) ==
    IF r.description # <<>> /\ IsErrorDescription(r.description) THEN "error"
    ELSE IF r.description # <<>> /\ Includes(r.description, "format not recognized")
    THEN "info-format"
    ELSE IF IsMeaningful(r) THEN "success"
    ELSE "info"

ToastFor(r) ==
    IF r.description # <<>> /\ IsErrorDescription(r.description) THEN "error"
    ELSE IF IsMeaningful(r) THEN "success"
    ELSE IF r.description # <<>> /\ Includes(r.description, "format not recognized")
    THEN "info-format"
    ELSE "info"

----------------------------------------------------------------------------
(* The receipt scan as a state machine *)

InitScan ==
    /\ pc = "idle"
    /\ viaUI = FALSE
    /\ file = [present |-> FALSE, size |-> 0]
    /\ apiKey \in BOOLEAN
    /\ defaultCategories \in CategoryLists
    /\ idx = 1
    /\ apiResponse = NullJson
    /\ lastError = NoError
    /\ contacted = <<>>
    /\ outcome = NotCompleted
    /\ toast = "none"

\* ReceiptScanner.handleReceiptScan(file), lines 20-31 of the widget
handleReceiptScan(f) ==
    /\ pc = "idle"
    /\ f.present
    /\ viaUI' = TRUE
    /\ file' = f
    /\ IF f.size > MaxFileSize
       THEN /\ toast' = "error-size"
            /\ pc' = "shown"
       ELSE /\ toast' = "none"
            /\ pc' = "called"
    /\ UNCHANGED <<apiKey, defaultCategories, idx, apiResponse, lastError,
                   contacted, outcome>>
    /\ UNCHANGED dbVars

\* scanReceipt(formData) called as a server action by any client
scanReceiptCall(f) ==
    /\ pc = "idle"
    /\ viaUI' = FALSE
    /\ file' = f
    /\ pc' = "called"
    /\ UNCHANGED <<apiKey, defaultCategories, idx, apiResponse, lastError,
                   contacted, outcome, toast>>
    /\ UNCHANGED dbVars

\* lines 256-316: the pre-checks, then the loop is entered
PreChecks ==
    /\ pc = "called"
    /\ LET e == PreCheck(file, apiKey) IN
       IF e.set
       THEN /\ outcome' = OuterCatch(Threw(e.message))
            /\ pc' = "done"
            /\ UNCHANGED <<idx, apiResponse, lastError>>
       ELSE /\ pc' = "loop"
            /\ idx' = 1
            /\ apiResponse' = NullJson
            /\ lastError' = NoError
            /\ UNCHANGED outcome
    /\ UNCHANGED <<viaUI, file, apiKey, defaultCategories, contacted, toast>>
    /\ UNCHANGED dbVars

\* lines 302-304: file.arrayBuffer() rejects after the pre-checks passed
ReadFileFails ==
    /\ pc = "called"
    /\ ~PreCheck(file, apiKey).set
    /\ outcome' = OuterCatch(Threw(<< "The requested file could not be read" >>))
    /\ pc' = "done"
    /\ UNCHANGED <<viaUI, file, apiKey, defaultCategories, idx, apiResponse,
                   lastError, contacted, toast>>
    /\ UNCHANGED dbVars

\* RecordError that keeps the first error once one is recorded
RecordError_keepFirst(prev, k, kind) ==
    IF prev.set THEN prev ELSE Error(FailureMessage(k, kind))

\* lines 356 and 360: lastError = the Error of this attempt
RecordError(prev, k, kind) == Error(FailureMessage(k, kind))

\* lines 319-362, one iteration that records a failure
EndpointFails(kind) ==
    /\ pc = "loop"
    /\ idx <= NumEndpoints
    /\ contacted' = Append(contacted, [ep |-> idx, kind |-> kind])
    /\ lastError' = RecordError(lastError, idx, kind)
    /\ idx' = idx + 1
    /\ pc' = IF idx = NumEndpoints THEN "extract" ELSE "loop"
    /\ UNCHANGED <<viaUI, file, apiKey, defaultCategories, apiResponse, outcome,
                   toast>>
    /\ UNCHANGED dbVars

\* EndpointSucceeds without the break: the loop goes on to the next endpoint
EndpointSucceeds_noBreak(body) ==
    /\ pc = "loop"
    /\ idx <= NumEndpoints
    /\ contacted' = Append(contacted, [ep |-> idx, kind |-> "ok"])
    /\ apiResponse' = body
    /\ idx' = idx + 1
    /\ pc' = IF idx = NumEndpoints THEN "extract" ELSE "loop"
    /\ UNCHANGED <<viaUI, file, apiKey, defaultCategories, lastError,
                   outcome, toast>>
    /\ UNCHANGED dbVars

\* lines 319-352, the iteration whose response is ok and decodes: break
EndpointSucceeds(body) ==
    /\ pc = "loop"
    /\ idx <= NumEndpoints
    /\ contacted' = Append(contacted, [ep |-> idx, kind |-> "ok"])
    /\ apiResponse' = body
    /\ pc' = "extract"
    /\ UNCHANGED <<viaUI, file, apiKey, defaultCategories, idx, lastError,
                   outcome, toast>>
    /\ UNCHANGED dbVars

\* lines 364-439: the rest of the call
Extract ==
    /\ pc = "extract"
    /\ outcome' = OuterCatch(AfterLoop(apiResponse, lastError, defaultCategories))
    /\ pc' = "done"
    /\ UNCHANGED <<viaUI, file, apiKey, defaultCategories, idx, apiResponse,
                   lastError, contacted, toast>>
    /\ UNCHANGED dbVars

\* the effects of lines 33-67 of the widget, once the call has completed
ShowToast ==
    /\ pc = "done"
    /\ viaUI
    /\ toast' = IF outcome.kind = "threw" THEN "error-failed"
                ELSE ToastFor(outcome.value)
    /\ pc' = "shown"
    /\ UNCHANGED <<viaUI, file, apiKey, defaultCategories, idx, apiResponse,
                   lastError, contacted, outcome>>
    /\ UNCHANGED dbVars

----------------------------------------------------------------------------
(* createTransaction and updateTransaction on the relational store *)

Users == {"A", "B"}

\* the account rows the runs start from: id = position in the table
OpeningAccounts ==
    << [userId |-> "A", balance |-> 10],
       [userId |-> "A", balance |-> 0],
       [userId |-> "B", balance |-> 5] >>

\* the accountId a request can carry: a row of the table, or no row (0)
RequestAccountIds == 0..Len(OpeningAccounts)

RequestData ==
    [accountId : RequestAccountIds, type : {"INCOME", "EXPENSE"}, amount : {1, 2}]

\* lines 69 and 149-155: the signed effect of a transaction on its account
BalanceChange(type, amount) == IF type = "EXPENSE" THEN -amount ELSE amount

\* db.account.findUnique({ where: { id, userId } }), lines 57-62
FindAccount(rows, id, userId) ==
    id \in 1..Len(rows) /\ rows[id].userId = userId

\* db.transaction.findUnique({ where: { id, userId } }), lines 136-144
FindTransaction(rows, id, userId) ==
    id \in 1..Len(rows) /\ rows[id].userId = userId

\* the account of tx.account.update({ where: { id: data.accountId } }),
\* lines 85-88 and 176-183: the row with that id, whoever owns it
UpdateTarget(rows, id, userId) == id \in 1..Len(rows)

Touch(rows, newRows, user) ==
    { <<user, a>> : a \in { a \in 1..Len(rows) : newRows[a].balance # rows[a].balance } }

InitDb ==
    /\ accounts = OpeningAccounts
    /\ transactions = <<>>
    /\ calls = {}
    /\ touched = {}
    /\ ops = 0

\* createTransaction, lines 49-70: the reads, up to the new balance.  A call
\* whose account lookup finds nothing throws "Account not found".
CreateRead(u, data) ==
    /\ ops < MaxOps
    /\ Cardinality(calls) < MaxCalls
    /\ ops' = ops + 1
    /\ IF FindAccount(accounts, data.accountId, u)
       THEN calls' = calls \cup
                { [op |-> "create", n |-> ops, user |-> u, id |-> 0, data |-> data,
                   change |-> accounts[data.accountId].balance
                                + BalanceChange(data.type, data.amount)] }
       ELSE UNCHANGED calls
    /\ UNCHANGED <<accounts, transactions, touched>>
    /\ UNCHANGED scanVars

\* createTransaction, lines 73-91: the db.$transaction that inserts the row
\* and writes the new balance
CreateCommit(c) ==
    /\ c \in calls
    /\ c.op = "create"
    /\ calls' = calls \ {c}
    /\ IF UpdateTarget(accounts, c.data.accountId, c.user)
       THEN /\ transactions' = Append(transactions,
                 [userId |-> c.user, accountId |-> c.data.accountId,
                  type |-> c.data.type, amount |-> c.data.amount])
            /\ accounts' = [accounts EXCEPT ![c.data.accountId].balance = c.change]
            /\ touched' = touched \cup Touch(accounts, accounts', c.user)
       ELSE UNCHANGED <<accounts, transactions, touched>>
    /\ UNCHANGED ops
    /\ UNCHANGED scanVars

\* updateTransaction, lines 126-157: the reads, up to the net balance change.
\* A call whose transaction lookup finds nothing throws.
UpdateRead(u, id, data) ==
    /\ ops < MaxOps
    /\ Cardinality(calls) < MaxCalls
    /\ ops' = ops + 1
    /\ IF FindTransaction(transactions, id, u)
       THEN calls' = calls \cup
                { [op |-> "update", n |-> ops, user |-> u, id |-> id, data |-> data,
                   change |-> BalanceChange(data.type, data.amount)
                                - BalanceChange(transactions[id].type,
                                                transactions[id].amount)] }
       ELSE UNCHANGED calls
    /\ UNCHANGED <<accounts, transactions, touched>>
    /\ UNCHANGED scanVars

\* updateTransaction, lines 160-186: the db.$transaction that rewrites the
\* row and increments the balance of the account named in the request; it
\* rolls back when no account has that id
UpdateCommit(c) ==
    /\ c \in calls
    /\ c.op = "update"
    /\ calls' = calls \ {c}
    /\ IF UpdateTarget(accounts, c.data.accountId, c.user)
       THEN /\ transactions' = [transactions EXCEPT ![c.id] =
                 [userId |-> c.user, accountId |-> c.data.accountId,
                  type |-> c.data.type, amount |-> c.data.amount]]
            /\ accounts' = [accounts EXCEPT ![c.data.accountId].balance = @ + c.change]
            /\ touched' = touched \cup Touch(accounts, accounts', c.user)
       ELSE UNCHANGED <<accounts, transactions, touched>>
    /\ UNCHANGED ops
    /\ UNCHANGED scanVars

Init == InitScan /\ InitDb

Next ==
    \/ \E f \in Files : handleReceiptScan(f)
    \/ \E f \in Files : scanReceiptCall(f)
    \/ PreChecks
    \/ ReadFileFails
    \/ \E kind \in FailureKinds : EndpointFails(kind)
    \/ \E body \in JsonBodies : EndpointSucceeds(body)
    \/ Extract
    \/ ShowToast

Spec == Init /\ [][Next]_vars

\* the transaction store alone: no receipt scan is in progress
InitTx ==
    /\ InitScan
    /\ apiKey = TRUE
    /\ defaultCategories = <<>>
    /\ InitDb

NextTx ==
    \/ \E u \in Users, data \in RequestData : CreateRead(u, data)
    \/ \E c \in calls : CreateCommit(c)
    \/ \E u \in Users, id \in 1..MaxOps, data \in RequestData : UpdateRead(u, id, data)
    \/ \E c \in calls : UpdateCommit(c)

SpecTx == InitTx /\ [][NextTx]_vars

\* one user's calls on their own accounts, executed one at a time: a call
\* starts only when no other call is between its read and its write
SeqUser == "A"

OwnRequestData ==
    { d \in RequestData :
        d.accountId \in 1..Len(OpeningAccounts)
        /\ OpeningAccounts[d.accountId].userId = SeqUser }

NextSeq ==
    \/ \E data \in OwnRequestData : calls = {} /\ CreateRead(SeqUser, data)
    \/ \E c \in calls : CreateCommit(c)
    \/ \E id \in 1..MaxOps, data \in OwnRequestData :
          calls = {} /\ UpdateRead(SeqUser, id, data)
    \/ \E c \in calls : UpdateCommit(c)

SpecSeq == InitTx /\ [][NextSeq]_vars

\* createTransaction calls alone, their reads and writes interleaved freely
NextCreate ==
    \/ \E u \in Users, data \in RequestData : CreateRead(u, data)
    \/ \E c \in calls : CreateCommit(c)

SpecCreate == InitTx /\ [][NextCreate]_vars

----------------------------------------------------------------------------
(* createAccount (src/actions/dashboard.js) on the account table.  Its rows *)
(* carry isDefault; the table starts empty.  The three database calls of the *)
(* action are separate awaits, and each can fail: the code swallows a       *)
(* failure of the first two and rethrows a failure of the third.            *)

\* the rows of user u
AccountsOf(rows, u) == { i \in 1..Len(rows) : rows[i].userId = u }

\* lines 120-121: the first account is default whatever the request says
ShouldBeDefault(existing, isDefault) == IF existing = 0 THEN TRUE ELSE isDefault

\* db.account.updateMany({ where: { userId, isDefault: true },
\*                         data: { isDefault: false } }), lines 126-129
UnsetDefaults(rows, u) ==
    [ i \in 1..Len(rows) |->
        IF rows[i].userId = u /\ rows[i].isDefault
        THEN [rows[i] EXCEPT !.isDefault = FALSE]
        ELSE rows[i] ]

\* createAccount, lines 62-121: up to shouldBeDefault.  When findMany throws
\* (found = FALSE) the code goes on with an empty list.
AccountLookup(u, isDefault, found) ==
    /\ ops < MaxAccountOps
    /\ Cardinality(calls) < MaxCalls
    /\ ops' = ops + 1
    /\ LET existing == IF found THEN Cardinality(AccountsOf(accounts, u)) ELSE 0
           should == ShouldBeDefault(existing, isDefault)
       IN calls' = calls \cup
            { [op |-> "account", n |-> ops, user |-> u, shouldBeDefault |-> should,
               stage |-> IF should THEN "unset" ELSE "create"] }
    /\ UNCHANGED <<accounts, transactions, touched>>
    /\ UNCHANGED scanVars

\* createAccount, lines 124-134: the other defaults are unset; when updateMany
\* throws (done = FALSE) the code goes on without the update
AccountUnset(c, done) ==
    /\ c \in calls
    /\ c.op = "account"
    /\ c.stage = "unset"
    /\ accounts' = IF done THEN UnsetDefaults(accounts, c.user) ELSE accounts
    /\ calls' = (calls \ {c}) \cup { [c EXCEPT !.stage = "create"] }
    /\ UNCHANGED <<transactions, touched, ops>>
    /\ UNCHANGED scanVars

\* createAccount, lines 137-156: the row is inserted; when create throws
\* (done = FALSE) the action throws and no row is added
AccountCreate(c, done) ==
    /\ c \in calls
    /\ c.op = "account"
    /\ c.stage = "create"
    /\ accounts' =
         IF done
         THEN Append(accounts, [userId |-> c.user, balance |-> 0,
                                isDefault |-> c.shouldBeDefault])
         ELSE accounts
    /\ calls' = calls \ {c}
    /\ UNCHANGED <<transactions, touched, ops>>
    /\ UNCHANGED scanVars

InitAcct ==
    /\ InitScan
    /\ apiKey = TRUE
    /\ defaultCategories = <<>>
    /\ accounts = <<>>
    /\ transactions = <<>>
    /\ calls = {}
    /\ touched = {}
    /\ ops = 0

NextAcct ==
    \/ \E u \in Users, isDefault \in BOOLEAN, found \in BOOLEAN :
          AccountLookup(u, isDefault, found)
    \/ \E c \in calls, done \in BOOLEAN : AccountUnset(c, done)
    \/ \E c \in calls, done \in BOOLEAN : AccountCreate(c, done)

SpecAcct == InitAcct /\ [][NextAcct]_vars

----------------------------------------------------------------------------
(* Properties of scanReceipt and of the widget, checked under Spec *)

\* the pre-check conditions, read off the request and the environment
NoFile == ~file.present
Oversize == file.present /\ file.size > 5 * 1024 * 1024
NoKey == ~apiKey
PreCheckFails == NoFile \/ Oversize \/ NoKey

\* the expense-category allow-list
AllowList ==
    { defaultCategories[i].id :
        i \in { j \in 1..Len(defaultCategories) : defaultCategories[j].type = "EXPENSE" } }

\* d contains the tokens of m, in a row
ContainsSeq(d, m) ==
    \E o \in 0..(Len(d) - Len(m)) : \A i \in 1..Len(m) : d[o + i] = m[i]

\* every text a failure of endpoint k can leave in a message
FailureTexts(k) == { FetchErrorOf(k), ErrorTextOf(k), JsonErrorOf(k) }

Failed(i) == contacted[i].kind \in {"exception", "non2xx", "badbody"}

\* C1: every completed scanReceipt call returned a result object whose amount
\* is >= 0 and whose category is non-empty and is a member of the expense
\* allow-list or the sentinel "other-expense".
C1_ResultWellFormed ==
    pc = "done" =>
        /\ outcome.kind = "returned"
        /\ outcome.value.amount >= 0
        /\ outcome.value.category # ""
        /\ outcome.value.category \in AllowList \cup {"other-expense"}

\* a call that decoded a negative amount and an allowed category
C1_Witness ==
    /\ pc = "done"
    /\ apiResponse.members.amount = Num(-2)
    /\ outcome.value.amount = 2
    /\ outcome.value.category = "groceries"

\* C2: once the pre-checks have passed, the call completes by returning a
\* result object, whatever the endpoints answered and whatever was decoded.
C2_NeverThrows ==
    (pc = "done" /\ ~PreCheckFails) => outcome.kind = "returned"

\* a call that passed the pre-checks and raised outside the inner try: the
\* response text of the successful endpoint was not a string
C2_Witness ==
    /\ pc = "done"
    /\ ~PreCheckFails
    /\ contacted # <<>>
    /\ apiResponse.text = "nonstring"
    /\ outcome.kind = "returned"

\* C3 as stated: a failed pre-check escapes to the caller as a thrown error.
C3_Original ==
    (pc = "done" /\ PreCheckFails) => outcome.kind = "threw"

\* C3 amended: a failed pre-check is returned to the caller as a result
\* object: amount 0, category "other-expense", merchant "Error occurred" and
\* a description "Error: <message of the first failed check>...".
C3_PreCheckFailureReturned ==
    (pc = "done" /\ PreCheckFails) =>
        /\ outcome.kind = "returned"
        /\ outcome.value.amount = 0
        /\ outcome.value.category = "other-expense"
        /\ outcome.value.merchantName = << "Error occurred" >>
        /\ Head(outcome.value.description) = "Error:"
        /\ NoFile => Includes(outcome.value.description, "No file provided")
        /\ Oversize =>
             Includes(outcome.value.description, "File size should be less than 5MB")
        /\ (~NoFile /\ ~Oversize) =>
             Includes(outcome.value.description,
                      "GEMINI_API_KEY is not configured in environment variables")

\* an oversize file that reached the server action and came back as a result
C3_Witness ==
    /\ pc = "done"
    /\ Oversize
    /\ outcome.kind = "returned"
    /\ Includes(outcome.value.description, "File size should be less than 5MB")

\* C4: the date of every returned result is a valid timestamp.
C4_DateValid ==
    (pc = "done" /\ outcome.kind = "returned") => outcome.value.date.valid

\* C5 as stated: "format not recognized" is tested before amount > 0.
C5_Original ==
    (pc = "shown" /\ outcome.kind = "returned") =>
        LET r == outcome.value
            d == r.description
        IN toast =
             IF Includes(d, "Error:") \/ Includes(d, "Failed to connect") THEN "error"
             ELSE IF Includes(d, "format not recognized") THEN "info-format"
             ELSE IF r.amount > 0 \/ ~Includes(d, "Receipt scan") THEN "success"
             ELSE "info"

\* C5 amended: error markers first; otherwise amount > 0, or a description
\* with neither "Receipt scan" nor "format not recognized", gives the success
\* toast; otherwise "format not recognized" gives the info toast; otherwise
\* the info fallback. A result with amount > 0 whose description contains
\* "format not recognized" gets the success toast.
C5_ToastPriority ==
    (pc = "shown" /\ outcome.kind = "returned") =>
        LET r == outcome.value
            d == r.description
            isError == Includes(d, "Error:") \/ Includes(d, "Failed to connect")
            format == Includes(d, "format not recognized")
            generic == Includes(d, "Receipt scan") \/ format
        IN /\ isError => toast = "error"
           /\ (~isError /\ r.amount > 0) => toast = "success"
           /\ (~isError /\ ~generic) => toast = "success"
           /\ (~isError /\ r.amount <= 0 /\ format) => toast = "info-format"
           /\ (~isError /\ r.amount <= 0 /\ generic /\ ~format) => toast = "info"

\* a positive amount with a "format not recognized" description, shown
C5_Witness ==
    /\ pc = "shown"
    /\ outcome.kind = "returned"
    /\ outcome.value.amount > 0
    /\ Includes(outcome.value.description, "format not recognized")
    /\ toast = "success"

\* C7: when endpoint 1 failed and endpoint 2 answered with HTTP success, the
\* returned result carries nothing of the failure of endpoint 1.
C7_FirstFailureNotSurfaced ==
    (/\ pc = "done"
     /\ Len(contacted) = 2
     /\ Failed(1)
     /\ contacted[2].kind = "ok") =>
        /\ outcome.kind = "returned"
        /\ \A t \in FailureTexts(1) : ~Includes(outcome.value.description, t)

\* C8 as stated: in list order, each endpoint at most once, and none after an
\* endpoint has returned HTTP success (a 2xx status, whatever its body).
C8_Original ==
    /\ \A i \in 1..Len(contacted) : contacted[i].ep = i
    /\ \A i \in 1..Len(contacted) :
         contacted[i].kind \in {"ok", "badbody"} => i = Len(contacted)

\* C8 amended: in list order, each endpoint at most once, endpoint k only
\* after endpoints 1..k-1 were contacted and failed, where a 2xx response
\* whose body does not decode counts as a failure; no endpoint is contacted
\* after one has returned HTTP success with a body that decoded.
C8_InOrderUntilDecoded ==
    /\ Len(contacted) <= 4
    /\ \A i \in 1..Len(contacted) : contacted[i].ep = i
    /\ \A i \in 1..Len(contacted) : i < Len(contacted) => Failed(i)
    /\ \A i \in 1..Len(contacted) : contacted[i].kind = "ok" => i = Len(contacted)

\* endpoint 1 answered 2xx with an undecodable body, endpoints 2 and 3 were
\* then contacted, and endpoint 3 ended the loop
C8_Witness ==
    /\ Len(contacted) = 3
    /\ contacted[1].kind = "badbody"
    /\ contacted[3].kind = "ok"
    /\ pc = "extract"

\* C9: when every endpoint failed, the returned description contains the
\* message of the failure of the last endpoint of the list and no text of an
\* earlier failure, with amount 0 and category "other-expense".
C9_LastFailureSurfaced ==
    (/\ pc = "done"
     /\ Len(contacted) = 4
     /\ \A i \in 1..4 : Failed(i)) =>
        /\ outcome.kind = "returned"
        /\ ContainsSeq(outcome.value.description, FailureMessage(4, contacted[4].kind))
        /\ \A k \in 1..3 : \A t \in FailureTexts(k) :
             ~Includes(outcome.value.description, t)
        /\ outcome.value.amount = 0
        /\ outcome.value.category = "other-expense"

\* four failures of different kinds, the last a non-2xx status
C9_Witness ==
    /\ pc = "done"
    /\ Len(contacted) = 4
    /\ contacted[1].kind = "exception"
    /\ contacted[2].kind = "badbody"
    /\ contacted[4].kind = "non2xx"
    /\ Includes(outcome.value.description, "errorText-4")

\* C10: in no state of a call whose pre-checks fail has an endpoint been
\* contacted; a file the widget rejects for its size never reaches the call.
C10_NoContactOnRejection ==
    /\ PreCheckFails => contacted = <<>>
    /\ toast = "error-size" => (contacted = <<>> /\ outcome.kind = "none")

\* an oversize file sent to the server action, the call completed
C10_Witness ==
    /\ pc = "done"
    /\ ~viaUI
    /\ Oversize
    /\ apiKey
    /\ contacted = <<>>

\* the response text of the endpoint that ended the loop ("" when the body
\* carries none), and whether its candidate JSON span decodes
ResponseText == IF apiResponse.text = "string" THEN apiResponse.tokens ELSE <<>>
SpanDecodes == JsonParse(JsonStringOf(ResponseText)).ok

\* C11: when an endpoint succeeded and the candidate JSON span of its text
\* does not decode (an empty text included), the call returns the default
\* result: a description with "format not recognized" and no "Error:",
\* amount 0, merchant "Unknown merchant", category "other-expense".
C11_DecodeFailureDefaults ==
    (/\ pc = "done"
     /\ contacted # <<>>
     /\ contacted[Len(contacted)].kind = "ok"
     /\ ~apiResponse.isNull
     /\ apiResponse.text \in {"missing", "string"}
     /\ ~SpanDecodes) =>
        /\ outcome.kind = "returned"
        /\ Includes(outcome.value.description, "format not recognized")
        /\ ~Includes(outcome.value.description, "Error:")
        /\ outcome.value.amount = 0
        /\ outcome.value.merchantName = << "Unknown merchant" >>
        /\ outcome.value.category = "other-expense"
        /\ outcome.value.date.valid

\* a response whose braces enclose prose, after an earlier endpoint failed
C11_Witness ==
    /\ pc = "done"
    /\ Len(contacted) = 2
    /\ contacted[2].kind = "ok"
    /\ apiResponse.text = "string"
    /\ apiResponse.tokens = << "{", "w" >>
    /\ Includes(outcome.value.description, "format not recognized")

----------------------------------------------------------------------------
(* Properties of the transaction store, checked under SpecTx *)

\* C6: every balance changed by a call of user A belongs to an account whose
\* userId is A.
C6_OwnBalancesOnly ==
    \A t \in touched : accounts[t[2]].userId = t[1]


\* the signed amount of a transaction row: income adds, expense subtracts
SignedAmount(t) == IF t.type = "INCOME" THEN t.amount ELSE -t.amount

\* the sum of the signed amounts of the rows 1..n assigned to account a
RECURSIVE SignedSum(_, _, _)
SignedSum(rows, a, n) ==
    IF n = 0 THEN 0
    ELSE SignedSum(rows, a, n - 1)
           + (IF rows[n].accountId = a THEN SignedAmount(rows[n]) ELSE 0)

\* C12 (checked under SpecSeq): whenever no call is in progress, every
\* account's balance is its opening balance plus the signed amounts of the
\* transactions currently assigned to it.
C12_BalancesMatchTransactions ==
    calls = {} =>
        \A a \in 1..Len(accounts) :
            accounts[a].balance =
                OpeningAccounts[a].balance
                  + SignedSum(transactions, a, Len(transactions))


\* C13 (checked under SpecCreate): when two createTransaction calls on the
\* same account have both committed, the account's balance is its opening
\* balance plus both signed amounts, whatever the order of their reads and
\* writes.
C13_NoLostUpdate ==
    (/\ calls = {}
     /\ Len(transactions) = 2
     /\ transactions[1].accountId = transactions[2].accountId) =>
        accounts[transactions[1].accountId].balance =
            OpeningAccounts[transactions[1].accountId].balance
              + SignedAmount(transactions[1]) + SignedAmount(transactions[2])


----------------------------------------------------------------------------
(* Properties of createAccount, checked under SpecAcct *)

\* C14: whenever no createAccount call is in progress, every user who has
\* an account has exactly one account with isDefault = TRUE.
C14_ExactlyOneDefault ==
    calls = {} =>
        \A u \in Users :
            AccountsOf(accounts, u) # {} =>
                Cardinality({ i \in AccountsOf(accounts, u) : accounts[i].isDefault }) = 1

====
